---- MODULE Spec2Model ----
(***************************************************************************)
(* Scoring and pick-lock core of the NBA pick'em backend.                  *)
(*                                                                         *)
(* The relational store is modelled by three tables: `games` (rows in      *)
(* insertion order), `team_selections` (a set of rows; the two unique      *)
(* constraints of the table make (user_id, week_id) a key) and the         *)
(* users' `total_points` column.  Weeks, seasons, teams and leagues are    *)
(* reference data that the operations below only read.  `requests` holds   *)
(* the operations in flight: selection requests that have passed their     *)
(* checks, or game-result updates that have computed their writes, and     *)
(* have not yet committed.                                                 *)
(***************************************************************************)
EXTENDS Integers, Sequences, FiniteSets, TLC

VARIABLES games, weeks, team_selections, user_total_points, now, result, ops, requests

vars == <<games, weeks, team_selections, user_total_points, now, result, ops, requests>>

(***************************************************************************)
(* Bounds                                                                  *)
(***************************************************************************)
\* scores range over 0..MaxScore, the clock over 0..MaxTime; a run of the
\* scoring specification performs at most MaxOps operations; the lock
\* specification starts from a games table of at most MaxGames rows
MaxScore == 1
MaxTime == 2
MaxOps == 2
MaxGames == 2

(***************************************************************************)
(* Reference data                                                          *)
(***************************************************************************)
\* NULL of an id column, of an integer column and of a DateTime column
None == "None"
NoScore == -1
NoTime == [t |-> -1, tz |-> "null"]

Users == {"u1", "u2"}
Teams == {"A", "B", "C"}
Seasons == {"s1", "s2", "s3"}
WeekIds == {"w1", "w2", "w3"}
Scores == 0..MaxScore
Times == 0..MaxTime
Bool == {TRUE, FALSE}

\* User.league_id and Season.league_id
UserLeague == [u \in Users |-> "l1"]
SeasonLeague == [s \in Seasons |-> IF s = "s3" THEN "l2" ELSE "l1"]

\* A DateTime column holds a naive value; datetime.replace(tzinfo=utc)
\* attaches the UTC zone to the same wall-clock reading.
Naive(t) == [t |-> t, tz |-> "naive"]

\* The weeks table.  w1 and w2 are consecutive weeks of season s1; w3 is week
\* 1 of season s2 and covers the same calendar dates as w1 (nothing in the
\* schema forbids weeks of different seasons from overlapping).
WeekTable == [w \in WeekIds |->
    CASE w = "w1" -> [id |-> "w1", number |-> 1, start_date |-> 1, end_date |-> 2,
                      lock_time |-> Naive(2), season_id |-> "s1"]
      [] w = "w2" -> [id |-> "w2", number |-> 2, start_date |-> 3, end_date |-> 4,
                      lock_time |-> Naive(1), season_id |-> "s1"]
      [] w = "w3" -> [id |-> "w3", number |-> 1, start_date |-> 1, end_date |-> 2,
                      lock_time |-> Naive(2), season_id |-> "s2"]]

\* A games row: Game(...) with no result yet.
Game(id, home, away, date, week_id, game_datetime) ==
    [nba_game_id |-> id, home_team_id |-> home, away_team_id |-> away,
     date |-> date, week_id |-> week_id, game_datetime |-> game_datetime,
     home_team_score |-> NoScore, away_team_score |-> NoScore, winner_id |-> None]

\* The schedule the scoring runs are checked on: team A plays twice in the
\* dates of w1/w3; g2's stored week reference (w2) disagrees with its date;
\* g3 is dated outside every week.
Schedule == <<Game("g1", "A", "B", 1, "w1", Naive(2)),
              Game("g2", "C", "A", 2, "w2", Naive(1)),
              Game("g3", "B", "C", 9, None, NoTime)>>

GameIds == {"g1", "g2", "g3"}

(***************************************************************************)
(* Scoring engine (app/services/game_service.py)                           *)
(***************************************************************************)

\* get_week_for_date falling back to any week when no range holds the date.
get_week_for_date_fallback(game_date) ==
    LET matching == {w \in WeekIds : weeks[w].start_date <= game_date
                                      /\ weeks[w].end_date >= game_date}
    IN IF matching = {} THEN WeekIds ELSE matching

\* db.query(Week).filter(start_date <= d, end_date >= d).first(): the query
\* has no ORDER BY, so any matching row can come first.  The operator gives
\* the candidates; the empty set stands for None.
get_week_for_date(game_date) ==
    {w \in WeekIds : weeks[w].start_date <= game_date /\ weeks[w].end_date >= game_date}

\* TeamWeekGames with the week taken from the stored week reference.
TeamWeekGames_by_week_id(db, team_id, week) ==
    {i \in 1..Len(db) :
        /\ db[i].week_id = week.id
        /\ (db[i].home_team_id = team_id \/ db[i].away_team_id = team_id)}

\* The rows of the games query of calculate_team_week_record, as indices
\* into the table.
\* TeamWeekGames without the filter on the team: every game of the date range.
TeamWeekGames_any_team(db, team_id, week) ==
    {i \in 1..Len(db) : week.start_date <= db[i].date /\ db[i].date <= week.end_date}

TeamWeekGames(db, team_id, week) ==
    {i \in 1..Len(db) :
        /\ db[i].date >= week.start_date
        /\ db[i].date <= week.end_date
        /\ (db[i].home_team_id = team_id \/ db[i].away_team_id = team_id)}

\* The counting loop over the queried rows.
RECURSIVE CountGames(_, _, _, _)
CountGames(db, rows, team_id, acc) ==
    IF rows = {} THEN acc
    ELSE LET i == CHOOSE x \in rows : TRUE
             game == db[i]
             next == IF game.winner_id = None
                       THEN [acc EXCEPT !.games_pending = @ + 1]
                     ELSE IF game.winner_id = team_id
                       THEN [acc EXCEPT !.wins = @ + 1]
                     ELSE [acc EXCEPT !.losses = @ + 1]
         IN CountGames(db, rows \ {i}, team_id, next)

calculate_team_week_record(db, team_id, week) ==
    LET rows == TeamWeekGames(db, team_id, week)
        acc == CountGames(db, rows, team_id, [wins |-> 0, losses |-> 0, games_pending |-> 0])
    IN [wins |-> acc.wins, losses |-> acc.losses, games_pending |-> acc.games_pending,
        total_games |-> Cardinality(rows),
        all_games_complete |-> (acc.games_pending = 0)]

\* calculate_selection_points with the superweek branch tested before the
\* shoot-the-moon branch.
calculate_selection_points_superweek_first(db, selection) ==
    IF selection.week_id \notin WeekIds THEN 0
    ELSE LET record == calculate_team_week_record(db, selection.team_id, weeks[selection.week_id])
         IN IF selection.is_superweek THEN record.wins * 2
            ELSE IF selection.is_shoot_the_moon
              THEN (IF record.all_games_complete /\ record.wins = 0 /\ record.losses > 0
                      THEN record.losses * 2 ELSE 0)
            ELSE record.wins

\* calculate_selection_points with no points for anyone while a game of the
\* team's week is pending.
calculate_selection_points_final_only(db, selection) ==
    IF selection.week_id \notin WeekIds THEN 0
    ELSE LET record == calculate_team_week_record(db, selection.team_id, weeks[selection.week_id])
         IN IF ~record.all_games_complete THEN 0
            ELSE IF selection.is_shoot_the_moon
              THEN (IF record.wins = 0 /\ record.losses > 0 THEN record.losses * 2 ELSE 0)
            ELSE IF selection.is_superweek THEN record.wins * 2
            ELSE record.wins

\* calculate_selection_points without the early return for a shoot-the-moon
\* selection whose team has a game pending.
calculate_selection_points_no_gate(db, selection) ==
    IF selection.week_id \notin WeekIds THEN 0
    ELSE LET record == calculate_team_week_record(db, selection.team_id, weeks[selection.week_id])
         IN IF selection.is_shoot_the_moon
              THEN (IF record.wins = 0 /\ record.losses > 0 THEN record.losses * 2 ELSE 0)
            ELSE IF selection.is_superweek THEN record.wins * 2
            ELSE record.wins

calculate_selection_points(db, selection) ==
    IF selection.week_id \notin WeekIds THEN 0
    ELSE LET record == calculate_team_week_record(db, selection.team_id, weeks[selection.week_id])
         IN IF ~record.all_games_complete /\ selection.is_shoot_the_moon THEN 0
            ELSE IF selection.is_shoot_the_moon
              THEN (IF record.wins = 0 /\ record.losses > 0 THEN record.losses * 2 ELSE 0)
            ELSE IF selection.is_superweek THEN record.wins * 2
            ELSE record.wins

\* sum(s.total_points or 0 for s in rows)
RECURSIVE SumPoints(_)
SumPoints(rows) ==
    IF rows = {} THEN 0
    ELSE LET s == CHOOSE x \in rows : TRUE
         IN s.total_points + SumPoints(rows \ {s})

SelectionsOfUser(rows, user_id) == {s \in rows : s.user_id = user_id}

\* Rescore that writes nothing back.
Rescore_stale(db, rows) == team_selections

\* selection.total_points = calculate_selection_points(db, selection) for
\* every row of `rows`, scored on the games table `db`; the other rows of the
\* selections table are left as they are.
Rescore(db, rows) ==
    (team_selections \ rows)
        \cup {[s EXCEPT !.total_points = calculate_selection_points(db, s)] : s \in rows}

\* GameIndex with the filter on nba_game_id lost: the first row of the table.
GameIndex_first(game_id) == IF Len(games) > 0 THEN 1 ELSE 0

\* The index of the games row with this nba_game_id, or 0.
GameIndex(game_id) ==
    IF \E i \in 1..Len(games) : games[i].nba_game_id = game_id
      THEN CHOOSE i \in 1..Len(games) : games[i].nba_game_id = game_id
      ELSE 0

\* Winner with a tie given to the home team.
Winner_tie_home(game, home_score, away_score) ==
    IF home_score >= away_score THEN game.home_team_id ELSE game.away_team_id

\* Winner that keeps a winner the game already has.
Winner_first_final(game, home_score, away_score) ==
    IF game.winner_id # None THEN game.winner_id
    ELSE IF home_score > away_score THEN game.home_team_id
    ELSE IF away_score > home_score THEN game.away_team_id
    ELSE None

\* "Determine winner"
Winner(game, home_score, away_score) ==
    IF home_score > away_score THEN game.home_team_id
    ELSE IF away_score > home_score THEN game.away_team_id
    ELSE None

\* WeekSelections with .first() in place of .all(): one row of the week.
WeekSelections_first(rows, week_id) ==
    LET all == {s \in rows : s.week_id = week_id}
    IN IF all = {} THEN {} ELSE {CHOOSE s \in all : TRUE}

\* The selections the propagation re-scores once the week is resolved.
WeekSelections(rows, week_id) == {s \in rows : s.week_id = week_id}

\* The users whose aggregate the propagation re-sums.
AffectedUsers(rows) == {s.user_id : s \in rows}

\* ResumUsers with the aggregate moved by the change of the sum instead of
\* being re-summed.
ResumUsers_delta(affected, rows) ==
    [u \in Users |->
        IF u \in affected
          THEN user_total_points[u] + SumPoints(SelectionsOfUser(rows, u))
                                    - SumPoints(SelectionsOfUser(team_selections, u))
          ELSE user_total_points[u]]

\* user.total_points = sum over all of the user's selections, for the users
\* in `affected`, read from the selections table `rows`.
ResumUsers(affected, rows) ==
    [u \in Users |-> IF u \in affected THEN SumPoints(SelectionsOfUser(rows, u))
                     ELSE user_total_points[u]]

update_game_and_recalculate_points(game_id, home_score, away_score) ==
    LET i == GameIndex(game_id) IN
    IF i = 0
      THEN /\ result' = [op |-> "update_game", status |-> "ValueError"]
           /\ UNCHANGED <<games, weeks, team_selections, user_total_points, now>>
      ELSE
        LET winner_id == Winner(games[i], home_score, away_score)
            matching == get_week_for_date(games[i].date)
        IN /\ games' = [games EXCEPT ![i].home_team_score = home_score,
                                     ![i].away_team_score = away_score,
                                     ![i].winner_id = winner_id]
           /\ UNCHANGED <<weeks, now>>
           /\ IF matching = {}
                THEN /\ result' = [op |-> "update_game", status |-> "ok", game_id |-> game_id,
                                   winner_id |-> winner_id, week_id |-> None,
                                   affected_users |-> 0, points_awarded |-> 0,
                                   error |-> "Could not determine week"]
                     /\ UNCHANGED <<team_selections, user_total_points>>
                ELSE \E w \in matching :
                     LET rows == WeekSelections(team_selections, w) IN
                     /\ team_selections' = Rescore(games', rows)
                     /\ user_total_points' = ResumUsers(AffectedUsers(rows), team_selections')
                     /\ result' = [op |-> "update_game", status |-> "ok", game_id |-> game_id,
                                   winner_id |-> winner_id, week_id |-> w,
                                   affected_users |-> Cardinality(AffectedUsers(rows)),
                                   points_awarded |-> SumPoints(WeekSelections(team_selections', w)),
                                   error |-> None]


\* recalculate_all_points without the pass over the users.
recalculate_all_points_no_resum ==
    LET rescored == Rescore(games, team_selections) IN
    /\ team_selections' = rescored
    /\ result' = [op |-> "recalculate_all", status |-> "ok",
                  selections_processed |-> Cardinality(team_selections),
                  users_affected |-> Cardinality(AffectedUsers(team_selections)),
                  total_points_awarded |-> SumPoints(rescored)]
    /\ UNCHANGED <<games, weeks, user_total_points, now>>

\* recalculate_all_points counting only the selections whose points moved.
recalculate_all_points_changed_only ==
    LET rescored == Rescore(games, team_selections)
        moved == team_selections \ rescored
    IN
    /\ team_selections' = rescored
    /\ user_total_points' = [u \in Users |-> SumPoints(SelectionsOfUser(rescored, u))]
    /\ result' = [op |-> "recalculate_all", status |-> "ok",
                  selections_processed |-> Cardinality(moved),
                  users_affected |-> Cardinality(AffectedUsers(moved)),
                  total_points_awarded |-> SumPoints(rescored)]
    /\ UNCHANGED <<games, weeks, now>>

recalculate_all_points ==
    LET rescored == Rescore(games, team_selections) IN
    /\ team_selections' = rescored
    /\ user_total_points' = [u \in Users |-> SumPoints(SelectionsOfUser(rescored, u))]
    /\ result' = [op |-> "recalculate_all", status |-> "ok",
                  selections_processed |-> Cardinality(team_selections),
                  users_affected |-> Cardinality(AffectedUsers(team_selections)),
                  total_points_awarded |-> SumPoints(rescored)]
    /\ UNCHANGED <<games, weeks, now>>

\* SeasonSelections without the filter on the season.
SeasonSelections_all(rows, season_id) == rows

\* The selections retabulate_season re-scores.
SeasonSelections(rows, season_id) == {s \in rows : s.season_id = season_id}

\* Change with the difference taken the other way round.
Change_reversed(selection, old_points, new_points) ==
    [user_id |-> selection.user_id, team_id |-> selection.team_id,
     week_id |-> selection.week_id,
     old_points |-> old_points, new_points |-> new_points,
     difference |-> old_points - new_points]

\* The change record retabulate_season appends for a selection whose points
\* moved.
Change(selection, old_points, new_points) ==
    [user_id |-> selection.user_id, team_id |-> selection.team_id,
     week_id |-> selection.week_id,
     old_points |-> old_points, new_points |-> new_points,
     difference |-> new_points - old_points]

retabulate_season(season_id) ==
    LET selections == SeasonSelections(team_selections, season_id)
        rescored == Rescore(games, selections)
        changes == {Change(s, s.total_points, calculate_selection_points(games, s)) :
                        s \in {x \in selections :
                                 x.total_points # calculate_selection_points(games, x)}}
    IN
    /\ UNCHANGED <<games, weeks, now>>
    /\ IF season_id \notin Seasons
         THEN /\ result' = [op |-> "retabulate_season", status |-> "ValueError"]
              /\ UNCHANGED <<team_selections, user_total_points>>
       ELSE IF selections = {}
         THEN /\ result' = [op |-> "retabulate_season", status |-> "ok",
                            season_id |-> season_id,
                            selections_found |-> 0, selections_updated |-> 0,
                            users_affected |-> 0, total_points_awarded |-> 0,
                            changes |-> {}]
              /\ UNCHANGED <<team_selections, user_total_points>>
       ELSE /\ team_selections' = rescored
            /\ user_total_points' = ResumUsers(AffectedUsers(selections), rescored)
            /\ result' = [op |-> "retabulate_season", status |-> "ok",
                          season_id |-> season_id,
                          selections_found |-> Cardinality(selections),
                          selections_updated |-> Cardinality(changes),
                          users_affected |-> Cardinality(AffectedUsers(selections)),
                          total_points_awarded |-> SumPoints(SeasonSelections(rescored, season_id)),
                          changes |-> changes]

(***************************************************************************)
(* Lock engine (app/utils/week_lock.py)                                    *)
(***************************************************************************)

\* datetime.replace(tzinfo=timezone.utc): same reading, zone attached.
ReplaceTzUtc(dt) == [dt EXCEPT !.tz = "utc"]

\* datetime.now(timezone.utc)
UtcNow(clock) == [t |-> clock, tz |-> "utc"]

\* Game.week_id == week.id, Game.game_datetime IS NOT NULL
TimedGames(db, week) ==
    {i \in 1..Len(db) : db[i].week_id = week.id /\ db[i].game_datetime # NoTime}

\* FirstByDatetime without the ORDER BY: the first row in insertion order.
FirstByDatetime_unordered(db, rows) ==
    CHOOSE i \in rows : \A j \in rows : i <= j

\* .order_by(Game.game_datetime.asc()).first() over a non-empty row set
FirstByDatetime(db, rows) ==
    CHOOSE i \in rows : \A j \in rows : db[i].game_datetime.t <= db[j].game_datetime.t

\* is_week_locked for a week that never locks.
is_week_locked_never(db, week, clock) == [locked |-> FALSE, lock_time |-> NoTime]

\* is_week_locked without the fallback to the week's stored lock_time.
is_week_locked_no_fallback(db, week, clock) ==
    LET rows == TimedGames(db, week) IN
    IF rows = {}
      THEN [locked |-> FALSE, lock_time |-> NoTime]
      ELSE LET lock_time == ReplaceTzUtc(db[FirstByDatetime(db, rows)].game_datetime)
           IN [locked |-> UtcNow(clock).t >= lock_time.t, lock_time |-> lock_time]

\* is_week_locked locking only strictly after the lock time.
is_week_locked_strict(db, week, clock) ==
    LET rows == TimedGames(db, week) IN
    IF rows = {}
      THEN IF week.lock_time # NoTime
             THEN LET lock_time == ReplaceTzUtc(week.lock_time)
                  IN [locked |-> UtcNow(clock).t > lock_time.t, lock_time |-> lock_time]
             ELSE [locked |-> FALSE, lock_time |-> NoTime]
      ELSE LET lock_time == ReplaceTzUtc(db[FirstByDatetime(db, rows)].game_datetime)
           IN [locked |-> UtcNow(clock).t > lock_time.t, lock_time |-> lock_time]

is_week_locked(db, week, clock) ==
    LET rows == TimedGames(db, week) IN
    IF rows = {}
      THEN IF week.lock_time # NoTime
             THEN LET lock_time == ReplaceTzUtc(week.lock_time)
                  IN [locked |-> UtcNow(clock).t >= lock_time.t, lock_time |-> lock_time]
             ELSE [locked |-> FALSE, lock_time |-> NoTime]
      ELSE LET lock_time == ReplaceTzUtc(db[FirstByDatetime(db, rows)].game_datetime)
           IN [locked |-> UtcNow(clock).t >= lock_time.t, lock_time |-> lock_time]

(***************************************************************************)
(* The selections table and its writers                                    *)
(***************************************************************************)

\* TeamSelection constructed with a point already on it.
TeamSelection_scored(user_id, team_id, season_id, week_id, is_superweek, is_shoot_the_moon) ==
    [user_id |-> user_id, team_id |-> team_id, season_id |-> season_id,
     week_id |-> week_id, is_superweek |-> is_superweek,
     is_shoot_the_moon |-> is_shoot_the_moon, total_points |-> 1]

TeamSelection(user_id, team_id, season_id, week_id, is_superweek, is_shoot_the_moon) ==
    [user_id |-> user_id, team_id |-> team_id, season_id |-> season_id,
     week_id |-> week_id, is_superweek |-> is_superweek,
     is_shoot_the_moon |-> is_shoot_the_moon, total_points |-> 0]

\* _user_week_uc and _user_team_season_uc
\* The same row of the selections table: (user_id, week_id) is a key.
SameUserWeek(a, b) == a.user_id = b.user_id /\ a.week_id = b.week_id

SameKey(a, b) ==
    \/ (a.user_id = b.user_id /\ a.week_id = b.week_id)
    \/ (a.user_id = b.user_id /\ a.team_id = b.team_id /\ a.season_id = b.season_id)

\* UniqueViolation for a table without the two constraints.
UniqueViolation_off(kept, added) == FALSE

\* The store rejects a commit that leaves two rows with the same key: `kept`
\* are the rows that stay, `added` the sequence of rows written.
UniqueViolation(kept, added) ==
    \/ \E i \in DOMAIN added : \E k \in kept : SameKey(added[i], k)
    \/ \E i \in DOMAIN added : \E j \in DOMAIN added : i # j /\ SameKey(added[i], added[j])

has_user_used_superweek(user_id, season_id) ==
    \E s \in team_selections :
        s.user_id = user_id /\ s.season_id = season_id /\ s.is_superweek

Reject(op, status) ==
    /\ result' = [op |-> op, status |-> status]
    /\ UNCHANGED team_selections

\* The checks of the endpoint, in the order of the code, on the state they
\* read: the HTTP error that refuses the request, or the branch ("update" of
\* the user's selection for the week, "insert" of a new one) that will write.
SelectionChecks(user, season_id, team_id, week_id, is_superweek, is_shoot_the_moon) ==
    LET existing_week == {s \in team_selections : s.user_id = user /\ s.week_id = week_id}
        team_taken == \E s \in team_selections :
                          s.user_id = user /\ s.team_id = team_id /\ s.season_id = season_id
    IN IF season_id \notin Seasons THEN "404 season"
       ELSE IF UserLeague[user] # SeasonLeague[season_id] THEN "403 league"
       ELSE IF team_id \notin Teams THEN "404 team"
       ELSE IF week_id \notin WeekIds THEN "404 week"
       ELSE IF is_week_locked(games, weeks[week_id], now).locked THEN "403 locked"
       ELSE IF existing_week # {}
         THEN LET existing == CHOOSE s \in existing_week : TRUE
              IN IF existing.team_id # team_id /\ team_taken THEN "400 team"
                 ELSE IF is_superweek /\ ~existing.is_superweek
                         /\ has_user_used_superweek(user, season_id)
                   THEN "400 superweek"
                 ELSE "update"
       ELSE IF team_taken THEN "400 team"
       ELSE IF is_superweek /\ has_user_used_superweek(user, season_id) THEN "400 superweek"
       ELSE "insert"

\* A request that passed its checks: the values it carries, the branch it
\* took and, on the update branch, the column values of the row it loaded.
\* `stale` is set when the loaded row has been deleted since.
Request(id, path, user, season_id, team_id, week_id, is_superweek, is_shoot_the_moon) ==
    LET existing_week == {s \in team_selections : s.user_id = user /\ s.week_id = week_id}
        existing == IF existing_week # {} THEN CHOOSE s \in existing_week : TRUE
                    ELSE TeamSelection(user, team_id, season_id, week_id,
                                       is_superweek, is_shoot_the_moon)
    IN [id |-> id, path |-> path, user_id |-> user, season_id |-> season_id,
        team_id |-> team_id, week_id |-> week_id,
        is_superweek |-> is_superweek, is_shoot_the_moon |-> is_shoot_the_moon,
        loaded_team_id |-> existing.team_id,
        loaded_is_superweek |-> existing.is_superweek,
        loaded_is_shoot_the_moon |-> existing.is_shoot_the_moon,
        stale |-> FALSE]

\* db.commit() of a request: the INSERT of the new row, or the UPDATE of the
\* loaded row by its id, which sets the columns whose value the request
\* changed.  The store refuses a write that breaks a unique constraint, and
\* an UPDATE whose row is gone fails.
commit_team_selection(r) ==
    LET op == "create_team_selection"
        Answer(status) == result' = [op |-> op, status |-> status, week_id |-> r.week_id]
        current == {s \in team_selections : s.user_id = r.user_id /\ s.week_id = r.week_id}
    IN
    IF r.path = "insert"
      THEN LET new_selection == TeamSelection(r.user_id, r.team_id, r.season_id, r.week_id,
                                              r.is_superweek, r.is_shoot_the_moon)
           IN IF UniqueViolation(team_selections, <<new_selection>>)
                THEN Answer("IntegrityError") /\ UNCHANGED team_selections
                ELSE /\ team_selections' = team_selections \cup {new_selection}
                     /\ Answer("created")
    ELSE IF r.stale \/ current = {}
      THEN Answer("StaleDataError") /\ UNCHANGED team_selections
    ELSE LET existing == CHOOSE s \in current : TRUE
             updated == [existing EXCEPT
                 !.team_id = IF r.team_id # r.loaded_team_id THEN r.team_id ELSE @,
                 !.is_superweek =
                     IF r.is_superweek # r.loaded_is_superweek THEN r.is_superweek ELSE @,
                 !.is_shoot_the_moon =
                     IF r.is_shoot_the_moon # r.loaded_is_shoot_the_moon
                       THEN r.is_shoot_the_moon ELSE @]
         IN IF UniqueViolation(team_selections \ {existing}, <<updated>>)
              THEN Answer("IntegrityError") /\ UNCHANGED team_selections
              ELSE /\ team_selections' = (team_selections \ {existing}) \cup {updated}
                   /\ Answer("updated")

\* The endpoint served without another request in between.
create_team_selection(user, season_id, team_id, week_id, is_superweek, is_shoot_the_moon) ==
    LET outcome == SelectionChecks(user, season_id, team_id, week_id,
                                   is_superweek, is_shoot_the_moon)
    IN
    /\ UNCHANGED <<games, weeks, user_total_points, now>>
    /\ IF outcome \notin {"update", "insert"}
         THEN /\ result' = [op |-> "create_team_selection", status |-> outcome,
                            week_id |-> week_id]
              /\ UNCHANGED team_selections
         ELSE commit_team_selection(Request(0, outcome, user, season_id, team_id, week_id,
                                            is_superweek, is_shoot_the_moon))

\* Week.number == week_number, .first()
WeeksNumbered(week_number) == {w \in WeekIds : weeks[w].number = week_number}

SeqRange(seq) == {seq[i] : i \in DOMAIN seq}

\* The session runs with autoflush off, so the deletes of the existing
\* selections and the inserts of the new ones reach the store in one flush
\* at commit.  When that flush writes an insert on a (user, week) key before
\* the delete that frees it, the store raises and the command rolls back;
\* either order is an outcome of the commit (`flushed`).
admin_submit_picks(user, week_number, team_list, superweek, shoot_the_moon, confirm, flushed) ==
    LET op == "admin_submit_picks" IN
    /\ UNCHANGED <<games, weeks, user_total_points, now>>
    /\ IF WeeksNumbered(week_number) = {} THEN Reject(op, "exit 1")
       ELSE \E w \in WeeksNumbered(week_number) :
            LET existing_selections ==
                    {s \in team_selections : s.user_id = user /\ s.week_id = w}
                kept == team_selections \ existing_selections
                added == [i \in DOMAIN team_list |->
                            TeamSelection(user, team_list[i], weeks[w].season_id, w,
                                          superweek, shoot_the_moon)]
            IN IF existing_selections # {} /\ ~confirm THEN Reject(op, "cancelled")
               ELSE IF UniqueViolation(kept, added) THEN Reject(op, "IntegrityError")
               ELSE IF existing_selections # {} /\ ~flushed THEN Reject(op, "IntegrityError")
               ELSE /\ team_selections' = kept \cup SeqRange(added)
                    /\ result' = [op |-> op, status |-> "ok", week_id |-> w]

(***************************************************************************)
(* Actions                                                                 *)
(***************************************************************************)

\* Every operation of the scoring specification spends one unit of the run's
\* budget.
Budget == ops < MaxOps /\ ops' = ops + 1

UpdateGameScore ==
    /\ Budget
    /\ UNCHANGED requests
    /\ \E game_id \in GameIds \cup {"g_unknown"}, home_score \in Scores, away_score \in Scores :
          update_game_and_recalculate_points(game_id, home_score, away_score)

RecalculatePoints == Budget /\ recalculate_all_points /\ UNCHANGED requests

RetabulateSeason ==
    /\ Budget
    /\ UNCHANGED requests
    /\ \E season_id \in Seasons \cup {"s_unknown"} : retabulate_season(season_id)

CreateTeamSelection ==
    /\ Budget
    /\ UNCHANGED requests
    /\ \E user \in Users, season_id \in Seasons, team_id \in Teams, week_id \in WeekIds,
          is_superweek \in Bool, is_shoot_the_moon \in Bool :
            create_team_selection(user, season_id, team_id, week_id,
                                  is_superweek, is_shoot_the_moon)

\* "Lakers" and "Lakers,Warriors": one team or two
AdminTeamLists ==
    {<<a>> : a \in Teams} \cup {<<p[1], p[2]>> : p \in {q \in Teams \X Teams : q[1] # q[2]}}

\* The answer to the confirmation prompt and the order of the flush matter
\* only when the user already has selections for the week.
AdminSubmitPicks ==
    /\ Budget
    /\ \E user \in Users, week_number \in {1, 2}, team_list \in AdminTeamLists,
          superweek \in Bool, shoot_the_moon \in Bool, confirm \in Bool, flushed \in Bool :
            /\ (~confirm => flushed)
            /\ (~confirm \/ ~flushed) =>
                  \E s \in team_selections :
                      s.user_id = user /\ s.week_id \in WeeksNumbered(week_number)
            /\ admin_submit_picks(user, week_number, team_list, superweek, shoot_the_moon,
                                  confirm, flushed)
            \* a request in flight that loaded a row the command deleted holds
            \* a row that is gone
            /\ requests' = {IF /\ result'.status = "ok"
                               /\ r.path = "update"
                               /\ r.user_id = user /\ r.week_id = result'.week_id
                              THEN [r EXCEPT !.stale = TRUE] ELSE r : r \in requests}

\* A selections row as the historical import writes it: the season is the
\* import's season, the points are the ones the sheet states.
ImportedSelection(user_id, team_id, week_id, is_superweek, is_shoot_the_moon, points) ==
    [TeamSelection(user_id, team_id, "s1", week_id, is_superweek, is_shoot_the_moon)
        EXCEPT !.total_points = points]

\* The cells of the imported sheet; an import brings in any part of it.
ImportSheet == {ImportedSelection("u1", "B", "w1", TRUE, FALSE, 2),
                ImportedSelection("u1", "C", "w2", FALSE, TRUE, 2),
                ImportedSelection("u2", "A", "w1", TRUE, TRUE, 0)}

\* The store after the historical import: the schedule without results, the
\* imported selections, and every user's total re-summed by the import.
Init ==
    /\ games = Schedule
    /\ weeks = WeekTable
    /\ team_selections \in SUBSET ImportSheet
    /\ user_total_points = [u \in Users |-> SumPoints(SelectionsOfUser(team_selections, u))]
    /\ now = 0
    /\ result = [op |-> "none", status |-> "ok"]
    /\ ops = 0
    /\ requests = {}

Next ==
    \/ UpdateGameScore
    \/ RecalculatePoints
    \/ RetabulateSeason
    \/ CreateTeamSelection
    \/ AdminSubmitPicks

Spec == Init /\ [][Next]_vars

\* The scoring operations alone, over the imported selections
ScoringNext == UpdateGameScore \/ RecalculatePoints \/ RetabulateSeason

ScoringSpec == Init /\ [][ScoringNext]_vars

(***************************************************************************)
(* The lock engine on its own: any games table of at most MaxGames rows,   *)
(* in any insertion order, and a running clock                             *)
(***************************************************************************)
DateTimes == {Naive(t) : t \in Times}

GameIdAt(i) == IF i = 1 THEN "g1" ELSE IF i = 2 THEN "g2" ELSE IF i = 3 THEN "g3" ELSE "g4"

\* The week reference and the start timestamp ingestion gave a game.
Assignments == [week_id : {"w1", "w2"}, game_datetime : DateTimes \cup {NoTime}]

LockSchedules ==
    {[i \in 1..Len(a) |-> Game(GameIdAt(i), "A", "B", 1, a[i].week_id, a[i].game_datetime)] :
        a \in UNION {[1..k -> Assignments] : k \in 0..MaxGames}}

\* is_week_locked reads week.lock_time as an optional attribute
\* ("hasattr(week, 'lock_time') and week.lock_time"): the week it is handed
\* carries a lock_time or none.
LockTimes == {WeekTable["w3"].lock_time, NoTime}

LockInit ==
    /\ games \in LockSchedules
    /\ \E lock_time \in DateTimes, lock_time_3 \in LockTimes :
          weeks = [WeekTable EXCEPT !["w1"].lock_time = lock_time,
                                   !["w3"].lock_time = lock_time_3]
    /\ team_selections = {}
    /\ user_total_points = [u \in Users |-> 0]
    /\ now = 0
    /\ result = [op |-> "none", status |-> "ok"]
    /\ ops = 0
    /\ requests = {}

\* locked, lock_time = is_week_locked(week, db)
CheckWeekLock ==
    /\ \E w \in WeekIds :
          LET r == is_week_locked(games, weeks[w], now)
          IN result' = [op |-> "is_week_locked", status |-> "ok", week_id |-> w,
                        locked |-> r.locked, lock_time |-> r.lock_time]
    /\ UNCHANGED <<games, weeks, team_selections, user_total_points, now, ops, requests>>

Tick ==
    /\ now < MaxTime
    /\ now' = now + 1
    /\ UNCHANGED <<games, weeks, team_selections, user_total_points, result, ops, requests>>

LockNext == CheckWeekLock \/ Tick

LockSpec == LockInit /\ [][LockNext]_vars

(***************************************************************************)
(* Picks against the clock: the selection endpoint and the administrative  *)
(* override while time passes over the weeks' lock times                   *)
(***************************************************************************)
PickNext == CreateTeamSelection \/ AdminSubmitPicks \/ Tick

PickSpec == Init /\ [][PickNext]_vars

(***************************************************************************)
(* Requests in flight: each request reads in its own transaction, passes   *)
(* its checks, and commits later; other requests and the administrative    *)
(* command may commit in between                                           *)
(***************************************************************************)
BeginRequest ==
    /\ Budget
    /\ \E user \in Users, season_id \in Seasons, team_id \in Teams, week_id \in WeekIds,
          is_superweek \in Bool, is_shoot_the_moon \in Bool :
            LET outcome == SelectionChecks(user, season_id, team_id, week_id,
                                           is_superweek, is_shoot_the_moon)
            IN IF outcome \notin {"update", "insert"}
                 THEN /\ result' = [op |-> "create_team_selection", status |-> outcome,
                                    week_id |-> week_id]
                      /\ UNCHANGED requests
                 ELSE /\ requests' = requests \cup
                            {Request(ops', outcome, user, season_id, team_id, week_id,
                                     is_superweek, is_shoot_the_moon)}
                      /\ UNCHANGED result
    /\ UNCHANGED <<games, weeks, team_selections, user_total_points, now>>

CommitRequest ==
    /\ \E r \in requests :
          /\ commit_team_selection(r)
          /\ requests' = requests \ {r}
    /\ UNCHANGED <<games, weeks, user_total_points, now, ops>>

\* The endpoint's requests alone
EndpointNext == BeginRequest \/ CommitRequest

EndpointSpec == Init /\ [][EndpointNext]_vars

RaceNext == BeginRequest \/ CommitRequest \/ AdminSubmitPicks

RaceSpec == Init /\ [][RaceNext]_vars

(***************************************************************************)
(* The league views: standings of a season with the picks of its current   *)
(* week, and the picks of one week                                         *)
(***************************************************************************)
\* date.today() is the server's local date and is_week_locked reads the UTC
\* clock; a request is served on any day of the calendar the weeks and the
\* schedule span.
Days ==
    {Schedule[i].date : i \in 1..Len(Schedule)}
        \cup UNION {{WeekTable[w].start_date, WeekTable[w].end_date} : w \in WeekIds}

LeagueUsers(league_id) == {u \in Users : UserLeague[u] = league_id}

\* The season's weeks whose date range holds `today`
CurrentWeeks(season_id, today) ==
    {w \in WeekIds : /\ weeks[w].season_id = season_id
                     /\ weeks[w].start_date <= today
                     /\ weeks[w].end_date >= today}

\* One row of the selections matching the filter, as a dict keyed by user
\* keeps one selection per user.
SelectionOf(rows, user_id) ==
    IF \E s \in rows : s.user_id = user_id
      THEN CHOOSE s \in rows : s.user_id = user_id
      ELSE [user_id |-> user_id, team_id |-> None, season_id |-> None, week_id |-> None,
            is_superweek |-> FALSE, is_shoot_the_moon |-> FALSE, total_points |-> 0]

get_league_standings(current_user, season_id, today, current_week) ==
    IF season_id \notin Seasons
      THEN [op |-> "get_league_standings", status |-> "404"]
      ELSE
        LET shown == IF current_week # None
                        /\ is_week_locked(games, weeks[current_week], now).locked
                       THEN {s \in team_selections :
                                s.season_id = season_id /\ s.week_id = current_week}
                       ELSE {}
        IN [op |-> "get_league_standings", status |-> "ok", current_user |-> current_user,
            season_id |-> season_id, week_id |-> current_week,
            standings |->
              [u \in LeagueUsers(SeasonLeague[season_id]) |->
                 LET mine == SelectionOf(shown, u) IN
                 [season_points |-> SumPoints({s \in SelectionsOfUser(team_selections, u) :
                                                 s.season_id = season_id}),
                  current_week_team |-> mine.team_id,
                  current_week_is_superweek |-> mine.is_superweek,
                  current_week_is_shoot_the_moon |-> mine.is_shoot_the_moon,
                  current_week_points |-> mine.total_points]]]

get_weekly_selections(current_user, season_id, week_id) ==
    IF season_id \notin Seasons \/ week_id \notin WeekIds
      THEN [op |-> "get_weekly_selections", status |-> "404"]
      ELSE
        LET users == LeagueUsers(SeasonLeague[season_id])
            selections == {s \in team_selections :
                             /\ s.season_id = season_id /\ s.week_id = week_id
                             /\ s.user_id \in users}
        IN [op |-> "get_weekly_selections", status |-> "ok", current_user |-> current_user,
            season_id |-> season_id, week_id |-> week_id,
            selections |->
              [u \in users |->
                 LET mine == SelectionOf(selections, u) IN
                 [has_selected |-> \E s \in selections : s.user_id = u,
                  team_id |-> mine.team_id,
                  is_superweek |-> mine.is_superweek,
                  is_shoot_the_moon |-> mine.is_shoot_the_moon,
                  total_points |-> mine.total_points]]]

GetLeagueStandings ==
    /\ \E current_user \in Users, season_id \in Seasons \cup {"s_unknown"}, today \in Days :
          LET matching == IF season_id \in Seasons THEN CurrentWeeks(season_id, today) ELSE {}
          IN \E current_week \in (IF matching = {} THEN {None} ELSE matching) :
                result' = get_league_standings(current_user, season_id, today, current_week)
    /\ UNCHANGED <<games, weeks, team_selections, user_total_points, now, ops, requests>>

GetWeeklySelections ==
    /\ \E current_user \in Users, season_id \in Seasons \cup {"s_unknown"},
          week_id \in WeekIds \cup {"w_unknown"} :
            result' = get_weekly_selections(current_user, season_id, week_id)
    /\ UNCHANGED <<games, weeks, team_selections, user_total_points, now, ops, requests>>

ViewNext == GetLeagueStandings \/ GetWeeklySelections \/ Tick

ViewSpec == Init /\ [][ViewNext]_vars

(***************************************************************************)
(* Game-result updates in flight: each update runs in its own transaction  *)
(* (READ COMMITTED, no row versioning, no locking reads): it reads the     *)
(* committed tables, computes on them and on its own game row, and its     *)
(* writes reach the tables at db.commit()                                  *)
(***************************************************************************)
\* GameUpdate that scores on the games table without its own game row.
GameUpdate_unflushed(id, game_id, home_score, away_score, week_id) ==
    LET i == GameIndex(game_id)
        rows == IF week_id = None THEN {} ELSE WeekSelections(team_selections, week_id)
        session == Rescore(games, rows)
        totals == ResumUsers(AffectedUsers(rows), session)
    IN [id |-> id, game_id |-> game_id, home_score |-> home_score,
        away_score |-> away_score, winner_id |-> Winner(games[i], home_score, away_score),
        week_id |-> week_id,
        read_games |-> games, read_selections |-> team_selections,
        selection_writes |-> session \ team_selections,
        user_writes |-> {u \in Users : totals[u] # user_total_points[u]},
        totals |-> totals,
        affected_users |-> Cardinality(AffectedUsers(rows)),
        points_awarded |-> SumPoints(session \ (team_selections \ rows))]

\* What one update holds in its session between its reads and its commit:
\* the game row it changed and flushed, the tables as it read them, and the
\* rows whose total_points it set to a value other than the one it loaded
\* (the unit of work writes only changed attributes).
GameUpdate(id, game_id, home_score, away_score, week_id) ==
    LET i == GameIndex(game_id)
        winner_id == Winner(games[i], home_score, away_score)
        flushed == [games EXCEPT ![i].home_team_score = home_score,
                                 ![i].away_team_score = away_score,
                                 ![i].winner_id = winner_id]
        rows == IF week_id = None THEN {} ELSE WeekSelections(team_selections, week_id)
        session == Rescore(flushed, rows)
        totals == ResumUsers(AffectedUsers(rows), session)
    IN [id |-> id, game_id |-> game_id, home_score |-> home_score,
        away_score |-> away_score, winner_id |-> winner_id, week_id |-> week_id,
        read_games |-> games, read_selections |-> team_selections,
        selection_writes |-> session \ team_selections,
        user_writes |-> {u \in Users : totals[u] # user_total_points[u]},
        totals |-> totals,
        affected_users |-> Cardinality(AffectedUsers(rows)),
        points_awarded |-> SumPoints(session \ (team_selections \ rows))]

\* The update up to its commit.  The flush of the game row takes the row's
\* lock, so an update of a game waits for an update of the same game that is
\* in flight.
BeginUpdateGame ==
    /\ Budget
    /\ \E game_id \in GameIds \cup {"g_unknown"}, home_score \in Scores, away_score \in Scores :
          LET i == GameIndex(game_id) IN
          IF i = 0
            THEN /\ result' = [op |-> "update_game", status |-> "ValueError"]
                 /\ UNCHANGED requests
            ELSE LET matching == get_week_for_date(games[i].date) IN
                 /\ \A t \in requests : t.game_id # game_id
                 /\ \E w \in (IF matching = {} THEN {None} ELSE matching) :
                       requests' = requests \cup
                           {GameUpdate(ops', game_id, home_score, away_score, w)}
                 /\ UNCHANGED result
    /\ UNCHANGED <<games, weeks, team_selections, user_total_points, now>>

\* db.commit(): the game row, then UPDATE ... SET total_points for the
\* selections and users the session changed, each by the row's key.
CommitUpdateGame ==
    /\ \E t \in requests :
          LET i == GameIndex(t.game_id) IN
          /\ games' = [games EXCEPT ![i].home_team_score = t.home_score,
                                    ![i].away_team_score = t.away_score,
                                    ![i].winner_id = t.winner_id]
          /\ team_selections' =
                {IF \E n \in t.selection_writes : SameUserWeek(n, s)
                   THEN [s EXCEPT !.total_points =
                            (CHOOSE n \in t.selection_writes : SameUserWeek(n, s)).total_points]
                   ELSE s : s \in team_selections}
          /\ user_total_points' =
                [u \in Users |-> IF u \in t.user_writes THEN t.totals[u]
                                 ELSE user_total_points[u]]
          /\ result' = [op |-> "update_game", status |-> "ok", game_id |-> t.game_id,
                        winner_id |-> t.winner_id, week_id |-> t.week_id,
                        affected_users |-> t.affected_users,
                        points_awarded |-> t.points_awarded,
                        error |-> IF t.week_id = None THEN "Could not determine week"
                                  ELSE None,
                        interleaved |-> (t.read_games # games
                                           \/ t.read_selections # team_selections)]
          /\ requests' = requests \ {t}
    /\ UNCHANGED <<weeks, now, ops>>

ConcurrentNext == BeginUpdateGame \/ CommitUpdateGame

ConcurrentSpec == Init /\ [][ConcurrentNext]_vars

(***************************************************************************)
(* The scoring rules as the design states them, counted over the games     *)
(* table directly                                                          *)
(***************************************************************************)
InWeekRange(game, week) == week.start_date <= game.date /\ game.date <= week.end_date

Plays(game, team_id) == game.home_team_id = team_id \/ game.away_team_id = team_id

GamesOf(team_id, week) ==
    {i \in 1..Len(games) : InWeekRange(games[i], week) /\ Plays(games[i], team_id)}

WinsOf(team_id, week) ==
    Cardinality({i \in GamesOf(team_id, week) : games[i].winner_id = team_id})

LossesOf(team_id, week) ==
    Cardinality({i \in GamesOf(team_id, week) :
                    games[i].winner_id # None /\ games[i].winner_id # team_id})

PendingOf(team_id, week) ==
    Cardinality({i \in GamesOf(team_id, week) : games[i].winner_id = None})

PointsOf(selection) ==
    LET week == weeks[selection.week_id]
        wins == WinsOf(selection.team_id, week)
        losses == LossesOf(selection.team_id, week)
        pending == PendingOf(selection.team_id, week)
    IN IF selection.is_shoot_the_moon
         THEN (IF pending = 0 /\ wins = 0 /\ losses > 0 THEN 2 * losses ELSE 0)
       ELSE IF selection.is_superweek THEN 2 * wins
       ELSE wins

\* The sum of a user's selection points, week by week ((user, week) is a key
\* of the selections table).
RECURSIVE TotalOverWeeks(_, _)
TotalOverWeeks(user_id, week_ids) ==
    IF week_ids = {} THEN 0
    ELSE LET w == CHOOSE x \in week_ids : TRUE
             mine == {s \in team_selections : s.user_id = user_id /\ s.week_id = w}
         IN (IF mine = {} THEN 0 ELSE (CHOOSE s \in mine : TRUE).total_points)
            + TotalOverWeeks(user_id, week_ids \ {w})

TotalOf(user_id) == TotalOverWeeks(user_id, WeekIds)

\* The last operation was a game-result update that resolved a week.
UpdateResolvedWeek ==
    result.op = "update_game" /\ result.status = "ok" /\ result.week_id # None

(***************************************************************************)
(* Claims                                                                  *)
(***************************************************************************)

C2_WeekRescored ==
    UpdateResolvedWeek =>
        \A s \in team_selections :
            s.week_id = result.week_id => s.total_points = PointsOf(s)

\* C2 witness: the update left two selections of the resolved week, on
\* different teams and of different users, both with points.
C2_Witness ==
    /\ UpdateResolvedWeek
    /\ \E s, t \in team_selections :
          /\ s.week_id = result.week_id /\ t.week_id = result.week_id
          /\ s.user_id # t.user_id /\ s.team_id # t.team_id
          /\ s.total_points > 0 /\ t.total_points > 0

\* C3: after a game-result update that resolved a week, every user with a
\* selection in that week has total_points equal to the sum over all of the
\* user's selections, whatever total was stored before.
C3_AffectedUsersResummed ==
    UpdateResolvedWeek =>
        \A u \in Users :
            (\E s \in team_selections : s.user_id = u /\ s.week_id = result.week_id)
                => user_total_points[u] = TotalOf(u)

\* C3 witness: the re-summed user also has a selection with points in a week
\* the update did not resolve.
C3_Witness ==
    /\ UpdateResolvedWeek
    /\ \E s, t \in team_selections :
          /\ s.user_id = t.user_id
          /\ s.week_id = result.week_id /\ t.week_id # result.week_id
          /\ t.total_points > 0 /\ s.total_points > 0
          /\ user_total_points[s.user_id] = s.total_points + t.total_points

\* C4: a shoot-the-moon selection, with or without superweek, scores
\* 2 x losses exactly when its team's week has no pending game, no win and at
\* least one loss, and 0 otherwise.
C4_ShootTheMoonPoints ==
    \A team_id \in Teams, week_id \in WeekIds, is_superweek \in Bool :
        LET selection == TeamSelection("u1", team_id, weeks[week_id].season_id, week_id,
                                       is_superweek, TRUE)
            week == weeks[week_id]
        IN calculate_selection_points(games, selection) =
             (IF PendingOf(team_id, week) = 0 /\ WinsOf(team_id, week) = 0
                 /\ LossesOf(team_id, week) > 0
                THEN 2 * LossesOf(team_id, week) ELSE 0)

\* C4 witness: a stored selection with both modifiers was scored 4 for two
\* losses once its team's last game of the week was final.
C4_Witness ==
    \E s \in team_selections :
        /\ s.is_shoot_the_moon /\ s.is_superweek /\ s.total_points = 4
        /\ LossesOf(s.team_id, weeks[s.week_id]) = 2
        /\ PendingOf(s.team_id, weeks[s.week_id]) = 0

\* C5: a selection without shoot-the-moon scores its team's wins of the week,
\* doubled under superweek, from the games already final, pending games or
\* not.
C5_WinsPoints ==
    \A team_id \in Teams, week_id \in WeekIds, is_superweek \in Bool :
        LET selection == TeamSelection("u1", team_id, weeks[week_id].season_id, week_id,
                                       is_superweek, FALSE)
            wins == WinsOf(team_id, weeks[week_id])
        IN calculate_selection_points(games, selection) =
             (IF is_superweek THEN 2 * wins ELSE wins)

\* C5 witness: a stored selection without shoot-the-moon holds the points of
\* a win while another game of its team's week is still pending.
C5_Witness ==
    \E s \in team_selections :
        /\ ~s.is_shoot_the_moon /\ s.total_points > 0
        /\ s.total_points = calculate_selection_points(games, s)
        /\ PendingOf(s.team_id, weeks[s.week_id]) > 0

\* C6: the team-week record counts exactly the games dated in the week's
\* range in which the team plays, whatever their stored week reference, each
\* once as a win, a loss or pending; wins + losses + pending = total and
\* all_games_complete iff nothing is pending.
C6_TeamWeekRecord ==
    \A team_id \in Teams, week_id \in WeekIds :
        LET week == weeks[week_id]
            record == calculate_team_week_record(games, team_id, week)
        IN /\ record.total_games = Cardinality(GamesOf(team_id, week))
           /\ record.wins = WinsOf(team_id, week)
           /\ record.losses = LossesOf(team_id, week)
           /\ record.games_pending = PendingOf(team_id, week)
           /\ record.wins + record.losses + record.games_pending = record.total_games
           /\ record.all_games_complete <=> (record.games_pending = 0)

\* C6 witness: a team has a win and a loss in a week, one of them in a game
\* whose stored week reference is another week.
C6_Witness ==
    \E team_id \in Teams, week_id \in WeekIds :
        LET record == calculate_team_week_record(games, team_id, weeks[week_id])
        IN /\ record.wins = 1 /\ record.losses = 1 /\ record.all_games_complete
           /\ \E i \in GamesOf(team_id, weeks[week_id]) : games[i].week_id # week_id

\* The games row with this id.
GameRow(db, game_id) == db[CHOOSE i \in 1..Len(db) : db[i].nba_game_id = game_id]

\* C7: a game-result update writes both scores on the game and sets its
\* winner to the home team iff the home score is greater, to the away team
\* iff the away score is greater, and to no winner iff the scores are equal.
C7_WinnerFromScores ==
    [][\A game_id \in GameIds, home_score \in Scores, away_score \in Scores :
         update_game_and_recalculate_points(game_id, home_score, away_score) =>
            LET game == GameRow(games', game_id)
            IN /\ game.home_team_score = home_score
               /\ game.away_team_score = away_score
               /\ (game.winner_id = game.home_team_id) <=> (home_score > away_score)
               /\ (game.winner_id = game.away_team_id) <=> (away_score > home_score)
               /\ (game.winner_id = None) <=> (home_score = away_score)]_vars

\* C7 witness: one game stored as a tie without winner, another won by the
\* away team.
C7_Witness ==
    \E i, j \in 1..Len(games) :
        /\ games[i].home_team_score # NoScore
        /\ games[i].home_team_score = games[i].away_team_score
        /\ games[i].winner_id = None
        /\ games[j].away_team_score > games[j].home_team_score
        /\ games[j].winner_id = games[j].away_team_id

\* No week's date range holds the date.
InNoWeek(date) ==
    \A w \in WeekIds : ~(weeks[w].start_date <= date /\ date <= weeks[w].end_date)

\* C8: a game-result update for an existing game dated in no week saves the
\* scores and the winner, returns normally with affected_users = 0 and an
\* error string, and changes no selection's and no user's points.
C8_NoWeekStopsAfterSave ==
    [][\A game_id \in GameIds, home_score \in Scores, away_score \in Scores :
         (/\ InNoWeek(GameRow(games, game_id).date)
          /\ update_game_and_recalculate_points(game_id, home_score, away_score)) =>
            /\ GameRow(games', game_id).home_team_score = home_score
            /\ GameRow(games', game_id).away_team_score = away_score
            /\ GameRow(games', game_id).winner_id =
                    (IF home_score > away_score THEN GameRow(games, game_id).home_team_id
                     ELSE IF away_score > home_score THEN GameRow(games, game_id).away_team_id
                     ELSE None)
            /\ result'.status = "ok"
            /\ result'.affected_users = 0
            /\ result'.error # None
            /\ team_selections' = team_selections
            /\ user_total_points' = user_total_points]_vars

\* C8 witness: the update of the game dated outside every week has been
\* reported, with selections in the store.
C8_Witness ==
    /\ result.op = "update_game" /\ result.status = "ok"
    /\ result.week_id = None /\ result.affected_users = 0
    /\ InNoWeek(GameRow(games, result.game_id).date)
    /\ GameRow(games, result.game_id).home_team_score # NoScore
    /\ team_selections # {}

\* C9: an unknown game id given to the update and an unknown season id
\* given to the retabulation are reported as failures, and the failed call
\* changes no game, selection or user.
C9_NotFoundChangesNothing ==
    [][/\ \A home_score \in Scores, away_score \in Scores :
            update_game_and_recalculate_points("g_unknown", home_score, away_score) =>
                /\ result'.status = "ValueError"
                /\ UNCHANGED <<games, team_selections, user_total_points>>
       /\ retabulate_season("s_unknown") =>
                /\ result'.status = "ValueError"
                /\ UNCHANGED <<games, team_selections, user_total_points>>]_vars

\* C9 witness: a not-found failure has been reported by the update, with
\* selections in the store and a game already scored.
C9_Witness ==
    /\ result.op = "update_game" /\ result.status = "ValueError"
    /\ team_selections # {}
    /\ \E i \in 1..Len(games) : games[i].home_team_score # NoScore

\* The start timestamps of the games assigned to the week.
WeekStartTimes(week_id) ==
    {games[i].game_datetime.t :
        i \in {j \in 1..Len(games) : games[j].week_id = week_id
                                       /\ games[j].game_datetime # NoTime}}

\* C10: for a week with at least one assigned game that carries a start
\* timestamp, the lock time is_week_locked returns is the least such
\* timestamp, in UTC, whatever the insertion order of the games and the
\* week's stored lock_time.
C10_LockTimeIsEarliestStart ==
    (result.op = "is_week_locked" /\ WeekStartTimes(result.week_id) # {}) =>
        /\ result.lock_time.tz = "utc"
        /\ result.lock_time.t \in WeekStartTimes(result.week_id)
        /\ \A t \in WeekStartTimes(result.week_id) : result.lock_time.t <= t

\* C10 witness: the week's earliest game was inserted after a later one, and
\* the stored lock_time of the week is a different time.
C10_Witness ==
    /\ result.op = "is_week_locked"
    /\ \E i, j \in 1..Len(games) :
          /\ i < j
          /\ games[i].week_id = result.week_id /\ games[j].week_id = result.week_id
          /\ games[i].game_datetime # NoTime /\ games[j].game_datetime # NoTime
          /\ games[j].game_datetime.t < games[i].game_datetime.t
          /\ result.lock_time.t = games[j].game_datetime.t
    /\ weeks[result.week_id].lock_time.t # result.lock_time.t

\* C11: for a week with no game carrying a start timestamp, is_week_locked
\* takes the week's stored lock_time as the lock time when there is one, and
\* otherwise answers (not locked, no lock time) whatever the current time.
C11_FallbackToStoredLockTime ==
    (result.op = "is_week_locked" /\ WeekStartTimes(result.week_id) = {}) =>
        IF weeks[result.week_id].lock_time # NoTime
          THEN /\ result.lock_time.t = weeks[result.week_id].lock_time.t
               /\ result.lock_time.tz = "utc"
          ELSE ~result.locked /\ result.lock_time = NoTime

\* C11 witness: a week whose only assigned game has no start timestamp was
\* checked and the stored lock_time came back as the lock time.
C11_Witness ==
    /\ result.op = "is_week_locked"
    /\ WeekStartTimes(result.week_id) = {}
    /\ \E i \in 1..Len(games) : games[i].week_id = result.week_id
    /\ result.lock_time # NoTime
    /\ result.lock_time.t = weeks[result.week_id].lock_time.t
    /\ result.locked

\* C12: whenever is_week_locked determines a lock time, locked is true iff
\* the current time is at or after it; equality counts as locked.
C12_LockedIffAtOrAfter ==
    [][CheckWeekLock =>
         (result'.lock_time # NoTime =>
            (result'.locked <=> now >= result'.lock_time.t))]_vars

\* C12 witness: a check made exactly at the lock time answered locked.
C12_Witness ==
    /\ result.op = "is_week_locked"
    /\ result.lock_time # NoTime
    /\ result.lock_time.t = now
    /\ result.locked

\* The lock time of a week as the rules state it: the earliest start among
\* the week's timed games, else the week's stored lock_time.
LockTimeOf(week_id) ==
    IF WeekStartTimes(week_id) # {}
      THEN CHOOSE t \in WeekStartTimes(week_id) : \A u \in WeekStartTimes(week_id) : t <= u
      ELSE weeks[week_id].lock_time.t

C14_FullRecalculationIsGroundTruth ==
    result.op = "recalculate_all" =>
        /\ \A s \in team_selections : s.total_points = PointsOf(s)
        /\ \A u \in Users : user_total_points[u] = TotalOf(u)

\* C14 witness: a full recalculation came after a game result; it scored a
\* selection, and a user without selections stands at 0.
C14_Witness ==
    /\ result.op = "recalculate_all"
    /\ \E s \in team_selections : s.total_points > 0
    /\ \E u \in Users : (\A s \in team_selections : s.user_id # u) /\ user_total_points[u] = 0

C16_RetabulationKeepsOtherSeasons ==
    [][\A season_id \in Seasons :
         retabulate_season(season_id) =>
            /\ {s \in team_selections' : s.season_id # season_id}
                  = {s \in team_selections : s.season_id # season_id}
            /\ \A u \in Users :
                  (\A s \in team_selections : ~(s.user_id = u /\ s.season_id = season_id))
                      => user_total_points'[u] = user_total_points[u]]_vars

\* C16 witness: a season with selections was retabulated while a selection
\* of another season, of a user with none in the retabulated one, keeps
\* stored points that its team's results do not give it.
C16_Witness ==
    /\ result.op = "retabulate_season" /\ result.status = "ok"
    /\ result.selections_found > 0
    /\ \E t \in team_selections :
          /\ t.season_id # result.season_id
          /\ t.total_points # PointsOf(t)
          /\ \A s \in team_selections :
                s.user_id = t.user_id => s.season_id # result.season_id

\* C17: after retabulating season s every selection of s holds the points
\* its team's results give it, and every user with a selection in s holds
\* the sum over the user's selections of all seasons.
C17_RetabulationRescoresSeason ==
    (result.op = "retabulate_season" /\ result.status = "ok") =>
        /\ \A s \in team_selections :
              s.season_id = result.season_id => s.total_points = PointsOf(s)
        /\ \A u \in Users :
              (\E s \in team_selections : s.user_id = u /\ s.season_id = result.season_id)
                  => user_total_points[u] = TotalOf(u)

\* C17 witness: a user with a selection in the retabulated season was
\* re-summed and the total carries the points of the user's selection of
\* another season.
C17_Witness ==
    /\ result.op = "retabulate_season" /\ result.status = "ok"
    /\ result.users_affected > 0
    /\ \E s, t \in team_selections :
          /\ s.user_id = t.user_id
          /\ s.season_id = result.season_id /\ t.season_id # result.season_id
          /\ t.total_points > 0
          /\ user_total_points[s.user_id] >= t.total_points

\* C18: retabulating season s reports one change record for each selection
\* of s whose recomputed points differ from the stored ones and none for
\* the others, each with old_points, new_points and their difference, and
\* selections_updated counts the records; a season without selections gives
\* the all-zero report with no change record.
C18_ChangeRecords ==
    [][\A season_id \in Seasons :
         retabulate_season(season_id) =>
            LET moved == {s \in team_selections :
                            s.season_id = season_id /\ s.total_points # PointsOf(s)}
                record(s) == [user_id |-> s.user_id, team_id |-> s.team_id,
                              week_id |-> s.week_id, old_points |-> s.total_points,
                              new_points |-> PointsOf(s),
                              difference |-> PointsOf(s) - s.total_points]
            IN /\ result'.status = "ok"
               /\ result'.changes = {record(s) : s \in moved}
               /\ Cardinality(result'.changes) = Cardinality(moved)
               /\ result'.selections_updated = Cardinality(moved)
               /\ (\A s \in team_selections : s.season_id # season_id) =>
                     /\ result'.selections_found = 0 /\ result'.selections_updated = 0
                     /\ result'.users_affected = 0 /\ result'.total_points_awarded = 0
                     /\ result'.changes = {}]_vars

\* C18 witness: a retabulation reported a change for one selection of the
\* season and none for another.
C18_Witness ==
    /\ result.op = "retabulate_season" /\ result.status = "ok"
    /\ result.selections_updated > 0
    /\ result.selections_found > result.selections_updated
    /\ \E c \in result.changes : c.difference = c.new_points - c.old_points /\ c.difference # 0

C20_OneSuperweekPerSeason ==
    \A s, t \in team_selections :
        (s # t /\ s.user_id = t.user_id /\ s.season_id = t.season_id)
            => ~(s.is_superweek /\ t.is_superweek)

\* C21: no selection created or modified through the selection endpoint
\* has both superweek and shoot_the_moon set.
C21_ModifiersExclusive ==
    [][\A s \in team_selections' \ team_selections :
          ~(s.is_superweek /\ s.is_shoot_the_moon)]_vars

\* C22: a game that has a recorded winner never has no winner or another
\* winner later.
C22_ResultIsFinal ==
    [][\A i \in 1..Len(games) :
          games[i].winner_id # None => games'[i].winner_id = games[i].winner_id]_vars

\* C23: a request to the selection endpoint never scores: a selection it
\* creates has total_points 0, a selection it modifies, team change
\* included, keeps its total_points, and every other selection and every
\* user's total stay as they were.
C23_RequestsNeverScore ==
    [][LET written == team_selections' \ team_selections
           replaced == team_selections \ team_selections'
       IN /\ user_total_points' = user_total_points
          /\ Cardinality(written) <= 1 /\ Cardinality(replaced) <= 1
          /\ \A o \in replaced : \E n \in written : SameUserWeek(n, o)
          /\ \A n \in written :
                IF \E o \in replaced : SameUserWeek(n, o)
                  THEN \A o \in replaced : n.total_points = o.total_points
                  ELSE n.total_points = 0]_vars

\* C23 witness: a request moved an imported selection to another team and
\* the selection still carries the points it was imported with.
C23_Witness ==
    /\ result.op = "create_team_selection" /\ result.status = "updated"
    /\ \E s \in team_selections, i \in ImportSheet :
          /\ SameUserWeek(s, i) /\ s.week_id = result.week_id
          /\ s.team_id # i.team_id
          /\ i.total_points > 0 /\ s.total_points = i.total_points
          /\ user_total_points[s.user_id] >= s.total_points

\* C24: game-result updates are not safe to run concurrently.  An update
\* that commits with no other commit between its reads and its commit leaves
\* every selection of the week it resolved with the points of the final
\* games table; two updates of different games of one week that both read
\* before either commits can leave a selection that is not (C24_Witness).
C24_SerialUpdatesAreFresh ==
    (UpdateResolvedWeek /\ ~result.interleaved) =>
        \A s \in team_selections :
            s.week_id = result.week_id => s.total_points = PointsOf(s)

\* C24 witness: two updates of different games in the same week's date range
\* have both completed, the second having read before the first committed,
\* and a selection of the week holds points other than the ones the final
\* games table gives it, with its user's total built from the stored value.
C24_Witness ==
    /\ UpdateResolvedWeek /\ result.interleaved /\ requests = {}
    /\ \E i, j \in 1..Len(games) :
          /\ i # j
          /\ games[i].winner_id # None /\ games[j].winner_id # None
          /\ InWeekRange(games[i], weeks[result.week_id])
          /\ InWeekRange(games[j], weeks[result.week_id])
    /\ \E s \in team_selections :
          /\ s.week_id = result.week_id
          /\ s.total_points # PointsOf(s)
          /\ user_total_points[s.user_id] = TotalOf(s.user_id)

\* The tables one game-result update leaves when it resolves week `w`,
\* as a function of the tables it starts from.
Applied(game_id, home_score, away_score, w) ==
    LET i == GameIndex(game_id)
        saved == [games EXCEPT ![i].home_team_score = home_score,
                               ![i].away_team_score = away_score,
                               ![i].winner_id = Winner(games[i], home_score, away_score)]
        rows == WeekSelections(team_selections, w)
        rescored == Rescore(saved, rows)
    IN [games |-> saved, team_selections |-> rescored,
        user_total_points |-> ResumUsers(AffectedUsers(rows), rescored)]

\* C25: a score correction is handled by applying the result again.  When
\* an update has applied a score A to a game, applying any score B next
\* (the weeks table is untouched in between, both updates resolve the same
\* week) leaves the games, the selections and the users' totals that
\* applying B alone from the starting state leaves; with B = A, applying a
\* result twice equals applying it once.
C25_CorrectionByReapplying ==
    [][(/\ result'.op = "update_game" /\ result'.status = "ok" /\ ops' # ops
        /\ result'.week_id # None)
       => \A game_id \in GameIds, w \in WeekIds :
            (game_id = result'.game_id /\ w = result'.week_id) =>
              LET a == games'[GameIndex(game_id)]
              IN /\ [games |-> games', team_selections |-> team_selections',
                      user_total_points |-> user_total_points']
                       = Applied(game_id, a.home_team_score, a.away_team_score, w)
                 /\ \A home_score \in Scores, away_score \in Scores :
                       Applied(game_id, home_score, away_score, w)'
                         = Applied(game_id, home_score, away_score, w)]_vars

\* C25 witness: a result has been applied and gave points to a selection on
\* the winner, points that a correction naming the other team takes back.
C25_Witness ==
    /\ UpdateResolvedWeek
    /\ \E s \in team_selections :
          /\ s.week_id = result.week_id
          /\ s.team_id = result.winner_id
          /\ ~s.is_shoot_the_moon
          /\ s.total_points > 0
          /\ \E i \in 1..Len(games) :
                /\ games[i].nba_game_id = result.game_id
                /\ Applied(result.game_id, games[i].away_team_score,
                           games[i].home_team_score, result.week_id).team_selections
                     # team_selections

\* A shoot-the-moon selection on `team_id` for week `week_id`.
MoonSelection(team_id, week_id, is_superweek) ==
    TeamSelection("u1", team_id, weeks[week_id].season_id, week_id, is_superweek, TRUE)

\* Some game of the week's date range has no winner.
WeekPending(week_id) ==
    \E i \in 1..Len(games) : InWeekRange(games[i], weeks[week_id]) /\ games[i].winner_id = None

Fresh == \A s \in team_selections : s.total_points = PointsOf(s)

\* C27: a game-result update that resolves a week preserves freshness over
\* the whole dataset: if every selection was fresh before it, every
\* selection of every season is fresh after it, weeks of several seasons
\* covering the game's date included.
C27_FreshnessPreserved ==
    [][(/\ Fresh
        /\ result'.op = "update_game" /\ result'.status = "ok" /\ ops' # ops
        /\ result'.week_id # None)
       => Fresh']_vars

\* C28: every selection's season is the season of its week (so that the
\* once-per-season checks of the endpoint, made against the request's
\* season, are made against the season of the week).
C28_SeasonOfSelectionIsSeasonOfWeek ==
    \A s \in team_selections : s.season_id = weeks[s.week_id].season_id

\* The game has been given equal scores.
Tied(game) ==
    game.home_team_score # NoScore /\ game.home_team_score = game.away_team_score

\* C29: a game finalized with equal scores has no winner and counts as
\* pending in the week record of both its teams: it is neither a win nor a
\* loss, all_complete is false for both teams, and every shoot-the-moon
\* selection on either team in a week covering the game scores 0 whatever
\* the other games' results; after the update that recorded the tie the
\* stored total_points of such selections in the resolved week is 0.
C29_TieCountsAsPending ==
    \A i \in 1..Len(games) :
        Tied(games[i]) =>
          /\ games[i].winner_id = None
          /\ \A team_id \in {games[i].home_team_id, games[i].away_team_id}, week_id \in WeekIds :
                InWeekRange(games[i], weeks[week_id]) =>
                  LET record == calculate_team_week_record(games, team_id, weeks[week_id])
                      others == GamesOf(team_id, weeks[week_id]) \ {i}
                  IN /\ record.games_pending >= 1
                     /\ ~record.all_games_complete
                     /\ record.wins = Cardinality({j \in others : games[j].winner_id = team_id})
                     /\ record.losses + record.wins
                          = Cardinality({j \in others : games[j].winner_id # None})
                     /\ \A is_superweek \in Bool :
                           calculate_selection_points(
                               games, MoonSelection(team_id, week_id, is_superweek)) = 0
                     /\ (UpdateResolvedWeek /\ result.week_id = week_id) =>
                           \A s \in team_selections :
                               (s.week_id = week_id /\ s.team_id = team_id
                                  /\ s.is_shoot_the_moon) => s.total_points = 0

\* C29 witness: the last update resolved a week in which a team has a tied
\* game and has lost its other game, and a stored shoot-the-moon selection on
\* that team has 0 points.
C29_Witness ==
    /\ UpdateResolvedWeek
    /\ \E i \in 1..Len(games), s \in team_selections :
          /\ Tied(games[i]) /\ Plays(games[i], s.team_id)
          /\ InWeekRange(games[i], weeks[s.week_id])
          /\ s.week_id = result.week_id /\ s.is_shoot_the_moon
          /\ LossesOf(s.team_id, weeks[s.week_id]) > 0
          /\ WinsOf(s.team_id, weeks[s.week_id]) = 0
          /\ PendingOf(s.team_id, weeks[s.week_id]) = 1
          /\ s.total_points = 0

\* C30: picks stay hidden until lock.  A response of the standings or of
\* the weekly-selections endpoint carries the pick (team or modifiers) of a
\* user other than the requester for a week only if that week is locked
\* when the request is served.
C30_PicksHiddenUntilLock ==
    /\ (result.op = "get_league_standings" /\ result.status = "ok") =>
          \A u \in DOMAIN result.standings :
              (/\ u # result.current_user
               /\ \/ result.standings[u].current_week_team # None
                  \/ result.standings[u].current_week_is_superweek
                  \/ result.standings[u].current_week_is_shoot_the_moon)
              => /\ result.week_id # None
                 /\ now >= LockTimeOf(result.week_id)
    /\ (result.op = "get_weekly_selections" /\ result.status = "ok") =>
          \A u \in DOMAIN result.selections :
              (/\ u # result.current_user
               /\ \/ result.selections[u].team_id # None
                  \/ result.selections[u].is_superweek
                  \/ result.selections[u].is_shoot_the_moon)
              => now >= LockTimeOf(result.week_id)
====
